---- MODULE Spec2Model ----
(***************************************************************************)
(* Model of the encrypted-store engine of src/src/main.rs (App::derive_key,*)
(* App::encrypt_data, App::decrypt_data, App::try_login) together with the *)
(* handlers of the login and editor screens that call it.                  *)
(*                                                                         *)
(* Cryptography is modelled symbolically: a derived key is the pair        *)
(* (password, salt), an AES-CTR ciphertext is the term (key, nonce,        *)
(* plaintext), a GCM tag is the term (key, nonce, ciphertext), and every   *)
(* draw of OsRng yields a value that was never drawn before.               *)
(***************************************************************************)
EXTENDS Integers, Sequences, FiniteSets, TLC

\* ------------------------------------------------------------------ bounds
\* Number of nonces OsRng hands out (the number of encryptions explored).
MaxNonce == 3
\* Number of salts OsRng hands out.
MaxSalt == 2

\* ------------------------------------------------------------- input sets
\* Strings are sequences of characters, so that trim() can be computed.
Passwords == {<<>>, <<" ">>, <<"p">>, <<"q">>}
KeyStrings == {<<>>, <<" ">>, <<"a">>, <<" ", "b">>}
Values == {"", "x"}
\* The keys typed where the document's shape is not what is examined.
OneKey == {<<"a">>}

\* ------------------------------------------------------------ file system
\* The content of a file that does not exist.
Absent == [kind |-> "absent"]

\* What the I/O calls of one engine operation do: all succeed, or the call
\* of the named kind fails.  A failed fs::write either could not open the
\* file (denied: nothing changes) or fails after File::create has created or
\* truncated it (cut: an empty file is left).
NoFault == {"none"}
Faults == {"none", "salt_read", "salt_write_denied", "salt_write_cut",
           "enc_read", "enc_write_denied", "enc_write_cut"}

\* A salt file: the id of the 16 random bytes, or an empty file left by a
\* write that failed after creating it.
SaltFile(id) == [kind |-> "salt", id |-> id, complete |-> TRUE]
EmptySaltFile == [kind |-> "salt", id |-> 0, complete |-> FALSE]

\* The element of the one-element set S: The({e(x) : x \in {v}}) is e(v)
\* with v computed once.
The(S) == CHOOSE x \in S : TRUE

\* ---------------------------------------------------------------- strings
IsSpace(c) == c = " "

RECURSIVE TrimStart(_)
TrimStart(s) == IF s # <<>> /\ IsSpace(Head(s)) THEN TrimStart(Tail(s)) ELSE s

RECURSIVE TrimEnd(_)
TrimEnd(s) ==
    IF s # <<>> /\ IsSpace(s[Len(s)]) THEN TrimEnd(SubSeq(s, 1, Len(s) - 1)) ELSE s

\* str::trim
Trim(s) == TrimEnd(TrimStart(s))

\* ------------------------------------------------------------ the document
\* AppData::default(): no items.
EmptyItems == [k \in {} |-> ""]

\* insert that keeps the value of a key already present.
Insert_keeping(items, k, v) ==
    [x \in (DOMAIN items) \cup {k} |-> IF x \in DOMAIN items THEN items[x] ELSE v]

\* HashMap::insert
Insert(items, k, v) == [x \in (DOMAIN items) \cup {k} |-> IF x = k THEN v ELSE items[x]]

\* HashMap::remove
Remove(items, k) == [x \in (DOMAIN items) \ {k} |-> items[x]]

\* The orders in which a HashMap with key set S can be iterated.
Orders(S) == {o \in [1..Cardinality(S) -> S] : \A i, j \in 1..Cardinality(S) : o[i] = o[j] => i = j}

\* serde_json::to_string(&self.data): the object {"items": {k: v, ...}} with
\* the entries in the iteration order of the map.
to_string(items, order) ==
    [utf8 |-> TRUE, json |-> TRUE,
     items |-> [i \in 1..Len(order) |-> <<order[i], items[order[i]]>>]]

\* serde_json::from_str::<AppData>: the entries are inserted in text order.
RECURSIVE InsertAll(_, _)
InsertAll(items, entries) ==
    IF entries = <<>> THEN items
    ELSE InsertAll(Insert(items, Head(entries)[1], Head(entries)[2]), Tail(entries))

from_str(text) == InsertAll(EmptyItems, text.items)

\* Bytes that are no UTF-8 text, and text that is no AppData object.
NotUtf8 == [utf8 |-> FALSE, json |-> FALSE, items |-> <<>>]
NotJson == [utf8 |-> TRUE, json |-> FALSE, items |-> <<>>]

\* ------------------------------------------------------------------ crypto
NonceLen == 12

\* derive_key with the password left out of the hash.
derive_key_salt_only(password, salt) ==
    IF ~salt.complete
    THEN [ok |-> FALSE, err |-> "salt invalid", key |-> <<>>]
    ELSE [ok |-> TRUE, err |-> "", key |-> <<<<>>, salt.id>>]

\* App::derive_key: Argon2 over (password, salt).  SaltString::encode_b64
\* rejects a salt that is too short (an empty salt file).
derive_key(password, salt) ==
    IF ~salt.complete
    THEN [ok |-> FALSE, err |-> "salt invalid", key |-> <<>>]
    ELSE [ok |-> TRUE, err |-> "", key |-> <<password, salt.id>>]

\* generate_nonce with a constant in place of the random draw.
generate_nonce_fixed(nn) == 0

\* Aes256Gcm::generate_nonce(&mut OsRng): the next value never drawn before.
generate_nonce(nn) == nn

\* OsRng.fill_bytes(&mut salt): the next value never drawn before.
generate_salt(ns) == ns + 1

\* AES-CTR part of cipher.encrypt: the ciphertext of plaintext pt.
Ctr(key, nonce, pt) == [k |-> key, n |-> nonce, pt |-> pt]

\* What AES-CTR decryption of ciphertext c gives under (key, nonce).
CtrDec(key, nonce, c) == IF c.k = key /\ c.n = nonce THEN c.pt ELSE NotUtf8

\* GHASH part of cipher.encrypt: the tag of ciphertext c.
Tag(key, nonce, c) == [k |-> key, n |-> nonce, c |-> c, flipped |-> FALSE]

\* cipher.encrypt(&nonce, plaintext): ciphertext followed by the tag.
encrypt(key, nonce, pt) ==
    [ct |-> Ctr(key, nonce, pt), tag |-> Tag(key, nonce, Ctr(key, nonce, pt))]

\* decrypt that releases the plaintext without verifying the tag.
decrypt_unverified(key, nonce, ct, tag) ==
    [ok |-> TRUE, pt |-> CtrDec(key, nonce, ct)]

\* cipher.decrypt(nonce, ciphertext): the tag is verified first; the
\* plaintext is released only if it matches.
decrypt(key, nonce, ct, tag) ==
    IF tag = Tag(key, nonce, ct)
    THEN [ok |-> TRUE, pt |-> CtrDec(key, nonce, ct)]
    ELSE [ok |-> FALSE, pt |-> NotUtf8]

\* EncFile without the nonce in front: the first 12 bytes of the ciphertext
\* are then read back as the nonce.
EncFile_no_nonce(nonce, sealed) ==
    [kind |-> "enc", text |-> "b64", nonce_bytes |-> NonceLen,
     nonce |-> -1, ct |-> sealed.ct, tag |-> sealed.tag]

\* The container file written by encrypt_data: base64 text of
\* nonce || ciphertext || tag.  nonce_bytes is the number of bytes of the
\* nonce that the decoded data holds (all 12 in a complete container).
EncFile(nonce, sealed) ==
    [kind |-> "enc", text |-> "b64", nonce_bytes |-> NonceLen,
     nonce |-> nonce, ct |-> sealed.ct, tag |-> sealed.tag]

\* The container file after File::create truncated it and nothing was written.
EmptyEncFile ==
    [kind |-> "enc", text |-> "b64", nonce_bytes |-> 0,
     nonce |-> 0, ct |-> Ctr(<<>>, 0, NotUtf8), tag |-> Tag(<<>>, 0, Ctr(<<>>, 0, NotUtf8))]

\* --------------------------------------------------------------- the engine
\* The result of an engine operation: err is <<>> for Ok(()) and <<e>> for
\* Err(e); items is self.data, fs the two files, rng the draws made so far.
Result(err, items, fs, rng) == [err |-> err, items |-> items, fs |-> fs, rng |-> rng]

\* fs::write(SALT_FILE, &salt) under fault io.
WriteSalt(fs, salt, io) ==
    IF io = "salt_write_denied" THEN fs
    ELSE IF io = "salt_write_cut" THEN [fs EXCEPT !.salt = EmptySaltFile]
    ELSE [fs EXCEPT !.salt = salt]

\* fs::write(ENCRYPTED_FILE, encoded) under fault io.
WriteEnc(fs, file, io) ==
    IF io = "enc_write_denied" THEN fs
    ELSE IF io = "enc_write_cut" THEN [fs EXCEPT !.enc = EmptyEncFile]
    ELSE [fs EXCEPT !.enc = file]

\* salt_exists that never finds the file.
salt_exists_never(fs) == FALSE

\* fs::metadata(SALT_FILE).is_ok()
salt_exists(fs) == fs.salt # Absent

\* App::encrypt_data(&self)
encrypt_data(password, items, fs, rng, io, order) ==
    LET json_data == to_string(items, order)
        exists == salt_exists(fs)
    IN  IF exists /\ io = "salt_read"
        THEN Result(<<"io: read salt">>, items, fs, rng)
        ELSE
        LET new_salt == SaltFile(generate_salt(rng.ns))
            rng1 == IF exists THEN rng ELSE [rng EXCEPT !.ns = @ + 1]
            fs1 == IF exists THEN fs ELSE WriteSalt(fs, new_salt, io)
            salt == IF exists THEN fs.salt ELSE new_salt
        IN  IF ~exists /\ io \in {"salt_write_denied", "salt_write_cut"}
            THEN Result(<<"io: write salt">>, items, fs1, rng1)
            ELSE
            LET k == derive_key(password, salt)
            IN  IF ~k.ok
                THEN Result(<<k.err>>, items, fs1, rng1)
                ELSE
                LET nonce == generate_nonce(rng1.nn)
                    rng2 == [rng1 EXCEPT !.nn = @ + 1]
                    sealed == encrypt(k.key, nonce, json_data)
                    fs2 == WriteEnc(fs1, EncFile(nonce, sealed), io)
                IN  IF io \in {"enc_write_denied", "enc_write_cut"}
                    THEN Result(<<"io: write data">>, items, fs2, rng2)
                    ELSE Result(<<>>, items, fs2, rng2)

\* first_run that returns the empty document without persisting it.
first_run_unsaved(password, fs, rng, io, order) ==
    Result(<<>>, EmptyItems, fs, rng)

\* The first-run path of decrypt_data: self.data = AppData::default();
\* self.encrypt_data()?; return Ok(())
first_run(password, fs, rng, io, order) ==
    encrypt_data(password, EmptyItems, fs, rng, io, order)

\* decrypt_data that takes a missing salt file for a first run.
decrypt_data_resalting(password, items, fs, rng, io, order) ==
    IF fs.enc = Absent \/ fs.salt = Absent
    THEN first_run(password, fs, rng, io, order)
    ELSE IF io = "enc_read" \/ fs.enc.text = "not_utf8"
    THEN Result(<<"io: read data">>, items, fs, rng)
    ELSE IF fs.enc.text # "b64"
    THEN Result(<<"base64: invalid">>, items, fs, rng)
    ELSE IF fs.enc.nonce_bytes < NonceLen
    THEN Result(<<"Beschaedigte Datendatei">>, items, fs, rng)
    ELSE IF io = "salt_read"
    THEN Result(<<"io: read salt">>, items, fs, rng)
    ELSE
    LET k == derive_key(password, fs.salt)
    IN  IF ~k.ok
        THEN Result(<<k.err>>, items, fs, rng)
        ELSE
        LET plain == decrypt(k.key, fs.enc.nonce, fs.enc.ct, fs.enc.tag)
        IN  IF ~plain.ok
            THEN Result(<<"Falsches Passwort">>, items, fs, rng)
            ELSE IF ~plain.pt.utf8
            THEN Result(<<"utf8: invalid">>, items, fs, rng)
            ELSE IF ~plain.pt.json
            THEN Result(<<"json: invalid">>, items, fs, rng)
            ELSE Result(<<>>, from_str(plain.pt), fs, rng)

\* App::decrypt_data(&mut self)
decrypt_data(password, items, fs, rng, io, order) ==
    IF fs.enc = Absent
    THEN first_run(password, fs, rng, io, order)
    ELSE IF io = "enc_read" \/ fs.enc.text = "not_utf8"
    THEN Result(<<"io: read data">>, items, fs, rng)
    ELSE IF fs.enc.text # "b64"
    THEN Result(<<"base64: invalid">>, items, fs, rng)
    ELSE IF fs.enc.nonce_bytes < NonceLen
    THEN Result(<<"Beschaedigte Datendatei">>, items, fs, rng)
    ELSE IF fs.salt = Absent \/ io = "salt_read"
    THEN Result(<<"io: read salt">>, items, fs, rng)
    ELSE
    LET k == derive_key(password, fs.salt)
    IN  IF ~k.ok
        THEN Result(<<k.err>>, items, fs, rng)
        ELSE
        LET plain == decrypt(k.key, fs.enc.nonce, fs.enc.ct, fs.enc.tag)
        IN  IF ~plain.ok
            THEN Result(<<"Falsches Passwort">>, items, fs, rng)
            ELSE IF ~plain.pt.utf8
            THEN Result(<<"utf8: invalid">>, items, fs, rng)
            ELSE IF ~plain.pt.json
            THEN Result(<<"json: invalid">>, items, fs, rng)
            ELSE Result(<<>>, from_str(plain.pt), fs, rng)

\* try_login whose Err branch keeps the password.
try_login_keeping_password(app, fs, rng, io, order) ==
    The({IF r.err = <<>>
         THEN [app |-> [app EXCEPT !.screen = "Editor", !.data = r.items,
                                   !.error_message = <<>>],
               fs |-> r.fs, rng |-> r.rng, err |-> r.err]
         ELSE [app |-> [app EXCEPT !.data = r.items, !.error_message = r.err],
               fs |-> r.fs, rng |-> r.rng, err |-> r.err]
         : r \in {decrypt_data(app.password, app.data, fs, rng, io, order)}})

\* App::try_login(&mut self, current_time), applied to the fields
\* app = [screen, password, data, error_message].
try_login(app, fs, rng, io, order) ==
    The({IF r.err = <<>>
         THEN [app |-> [app EXCEPT !.screen = "Editor", !.data = r.items,
                                   !.error_message = <<>>],
               fs |-> r.fs, rng |-> r.rng, err |-> r.err]
         ELSE [app |-> [app EXCEPT !.data = r.items, !.error_message = r.err,
                                   !.password = <<>>],
               fs |-> r.fs, rng |-> r.rng, err |-> r.err]
         : r \in {decrypt_data(app.password, app.data, fs, rng, io, order)}})

\* add_new_entry without the test of the trimmed key.
add_new_entry_unchecked(form) ==
    [data |-> Insert(form.data, form.new_key, form.new_value),
     new_key |-> <<>>, new_value |-> ""]

\* App::add_new_entry(&mut self, current_time), applied to the fields
\* form = [data, new_key, new_value].
add_new_entry(form) ==
    IF Trim(form.new_key) # <<>>
    THEN [data |-> Insert(form.data, form.new_key, form.new_value),
          new_key |-> <<>>, new_value |-> ""]
    ELSE form

\* ------------------------------------------------------------------- state
VARIABLES
    screen,            \* App.screen
    password,          \* App.password
    data,              \* App.data.items
    error_message,     \* App.error_message: <<>> is the empty string
    new_key,           \* App.new_key
    new_value,         \* App.new_value
    delete_candidate,  \* App.delete_candidate: {} is None, {k} is Some(k)
    closed,            \* ViewportCommand::Close was sent
    fs,                \* the files SALT_FILE and ENCRYPTED_FILE
    rng,               \* how many nonces (nn) and salts (ns) OsRng handed out
    last,              \* observation: the engine call just made and its result
    store,             \* observation: the container writes that succeeded
    tampered           \* observation: the container before it was changed from outside

app_vars == <<screen, password, data, error_message, new_key, new_value,
              delete_candidate, closed>>
vars == <<screen, password, data, error_message, new_key, new_value,
          delete_candidate, closed, fs, rng, last, store, tampered>>

\* No engine call was just made.
Idle ==
    [op |-> "none", ok |-> TRUE, pw |-> <<>>, first_run |-> FALSE,
     no_salt |-> FALSE, changed |-> FALSE, kept |-> TRUE, err |-> <<>>]

\* The observation of the engine call op made with password pw and document
\* items on the files before, with result r.
Observe(op, pw, items, before, r) ==
    [op |-> op, ok |-> r.err = <<>>, pw |-> pw,
     first_run |-> before.enc = Absent, no_salt |-> before.salt = Absent,
     changed |-> r.fs # before, kept |-> r.items = items, err |-> r.err]

\* No container was written.
NoStore == [pw |-> {}, doc |-> EmptyItems, by |-> "none", used |-> {}]

\* The store after the engine call op wrote the container r.fs.enc for the
\* document doc under password pw.
Stored(st, op, pw, doc, r) ==
    [pw |-> {pw}, doc |-> doc, by |-> op,
     used |-> st.used \cup {<<r.fs.enc.ct.k, r.fs.enc.nonce>>}]

App == [screen |-> screen, password |-> password, data |-> data,
        error_message |-> error_message]

\* One unlock: try_login with its observations.  A successful call that
\* changed the container has written it on the first-run path, for the empty
\* document.
Login(st, io) ==
    The({[app |-> t.app, fs |-> t.fs, rng |-> t.rng,
          last |-> Observe("unlock", st.app.password, st.app.data, st.fs, t),
          store |-> IF t.err = <<>> /\ t.fs.enc # st.fs.enc
                    THEN Stored(st.store, "unlock", st.app.password, EmptyItems, t)
                    ELSE st.store,
          tampered |-> IF t.err = <<>> /\ t.fs.enc # st.fs.enc THEN {} ELSE st.tampered]
         : t \in {[app |-> u.app, fs |-> u.fs, rng |-> u.rng, err |-> u.err,
                   items |-> u.app.data]
                  : u \in {try_login(st.app, st.fs, st.rng, io, <<>>)}}})

\* OsRng can hand out a nonce and a salt.
CanDraw(r) == r.nn < MaxNonce /\ r.ns < MaxSalt

Init ==
    /\ screen = "PasswordInput"
    /\ password = <<>>
    /\ data = EmptyItems
    /\ error_message = <<>>
    /\ new_key = <<>>
    /\ new_value = ""
    /\ delete_candidate = {}
    /\ closed = FALSE
    /\ fs = [salt |-> Absent, enc |-> Absent]
    /\ rng = [nn |-> 0, ns |-> 0]
    /\ last = Idle
    /\ store = NoStore
    /\ tampered = {}

\* ------------------------------------------------------------ login screen
\* The password field of the login screen is edited.
TypePassword(p) ==
    /\ ~closed /\ screen = "PasswordInput"
    /\ password' = p
    /\ last' = Idle
    /\ UNCHANGED <<screen, data, error_message, new_key, new_value,
                   delete_candidate, closed, fs, rng, store, tampered>>

\* One frame of show_login_screen in which the unlock button is clicked,
\* Enter is pressed in the password field, or both (then try_login runs
\* twice).  login_enabled is computed once, before either is handled.
LoginFrame(clicked, enter, io1, io2) ==
    /\ ~closed /\ screen = "PasswordInput"
    /\ clicked \/ enter
    /\ Trim(password) # <<>>
    /\ CanDraw(rng)
    /\ ~(clicked /\ enter) => io2 = "none"
    /\ \E s0 \in {[app |-> App, fs |-> fs, rng |-> rng, last |-> last,
                   store |-> store, tampered |-> tampered]} :
       \E s1 \in {Login(s0, io1)} :
       \E s2 \in {IF clicked /\ enter THEN Login(s1, io2) ELSE s1} :
           /\ (clicked /\ enter) => CanDraw(s1.rng)
           /\ screen' = s2.app.screen
           /\ password' = s2.app.password
           /\ data' = s2.app.data
           /\ error_message' = s2.app.error_message
           /\ fs' = s2.fs
           /\ rng' = s2.rng
           /\ last' = s2.last
           /\ store' = s2.store
           /\ tampered' = s2.tampered
    /\ UNCHANGED <<new_key, new_value, delete_candidate, closed>>

\* ----------------------------------------------------------- editor screen
\* Save whose Err branch resets the document.
Save_losing(io, order) ==
    /\ ~closed /\ screen = "Editor"
    /\ CanDraw(rng)
    /\ \E r \in {encrypt_data(password, data, fs, rng, io, order)} :
           /\ error_message' = IF r.err = <<>> THEN error_message ELSE <<"X ">> \o r.err
           /\ data' = IF r.err = <<>> THEN data ELSE EmptyItems
           /\ fs' = r.fs
           /\ rng' = r.rng
           /\ last' = Observe("save", password, data, fs, r)
           /\ store' = IF r.err = <<>> THEN Stored(store, "save", password, data, r) ELSE store
           /\ tampered' = IF r.err = <<>> THEN {} ELSE tampered
    /\ UNCHANGED <<screen, password, new_key, new_value, delete_candidate, closed>>

\* Save whose Ok branch clears the error message.
Save_clearing(io, order) ==
    /\ ~closed /\ screen = "Editor"
    /\ CanDraw(rng)
    /\ \E r \in {encrypt_data(password, data, fs, rng, io, order)} :
           /\ error_message' = IF r.err = <<>> THEN <<>> ELSE <<"X ">> \o r.err
           /\ fs' = r.fs
           /\ rng' = r.rng
           /\ last' = Observe("save", password, data, fs, r)
           /\ store' = IF r.err = <<>> THEN Stored(store, "save", password, data, r) ELSE store
           /\ tampered' = IF r.err = <<>> THEN {} ELSE tampered
    /\ UNCHANGED <<screen, password, data, new_key, new_value, delete_candidate, closed>>

\* The save button of the editor: encrypt_data, a toast, and on Err the
\* error message.
Save(io, order) ==
    /\ ~closed /\ screen = "Editor"
    /\ CanDraw(rng)
    /\ \E r \in {encrypt_data(password, data, fs, rng, io, order)} :
           /\ error_message' = IF r.err = <<>> THEN error_message ELSE <<"X ">> \o r.err
           /\ fs' = r.fs
           /\ rng' = r.rng
           /\ last' = Observe("save", password, data, fs, r)
           /\ store' = IF r.err = <<>> THEN Stored(store, "save", password, data, r) ELSE store
           /\ tampered' = IF r.err = <<>> THEN {} ELSE tampered
    /\ UNCHANGED <<screen, password, data, new_key, new_value, delete_candidate, closed>>

\* SaveAndExit that closes only after a save that succeeded, and reports
\* the error of one that failed.
SaveAndExit_staying(io, order) ==
    /\ ~closed /\ screen = "Editor"
    /\ CanDraw(rng)
    /\ \E r \in {encrypt_data(password, data, fs, rng, io, order)} :
           /\ fs' = r.fs
           /\ rng' = r.rng
           /\ last' = Observe("save_exit", password, data, fs, r)
           /\ store' = IF r.err = <<>> THEN Stored(store, "save", password, data, r) ELSE store
           /\ tampered' = IF r.err = <<>> THEN {} ELSE tampered
           /\ closed' = (r.err = <<>>)
           /\ error_message' = IF r.err = <<>> THEN error_message ELSE <<"X ">> \o r.err
    /\ UNCHANGED <<screen, password, data, new_key, new_value, delete_candidate>>

\* The save-and-exit button: the result of encrypt_data is dropped and the
\* viewport is closed.
SaveAndExit(io, order) ==
    /\ ~closed /\ screen = "Editor"
    /\ CanDraw(rng)
    /\ \E r \in {encrypt_data(password, data, fs, rng, io, order)} :
           /\ fs' = r.fs
           /\ rng' = r.rng
           /\ last' = Observe("save_exit", password, data, fs, r)
           /\ store' = IF r.err = <<>> THEN Stored(store, "save", password, data, r) ELSE store
           /\ tampered' = IF r.err = <<>> THEN {} ELSE tampered
    /\ closed' = TRUE
    /\ UNCHANGED <<screen, password, data, error_message, new_key, new_value,
                   delete_candidate>>

\* The key field of the add form is edited.
TypeNewKey(k) ==
    /\ ~closed /\ screen = "Editor"
    /\ new_key' = k
    /\ last' = Idle
    /\ UNCHANGED <<screen, password, data, error_message, new_value,
                   delete_candidate, closed, fs, rng, store, tampered>>

\* The value field of the add form is edited.
TypeNewValue(v) ==
    /\ ~closed /\ screen = "Editor"
    /\ new_value' = v
    /\ last' = Idle
    /\ UNCHANGED <<screen, password, data, error_message, new_key,
                   delete_candidate, closed, fs, rng, store, tampered>>

\* One frame of the add form in which the add button is clicked, Enter is
\* pressed in one of its fields, or both (then add_new_entry runs twice).
\* can_add is computed once, before either is handled.
AddFrame(clicked, enter) ==
    /\ ~closed /\ screen = "Editor"
    /\ clicked \/ enter
    /\ Trim(new_key) # <<>>
    /\ \E f0 \in {[data |-> data, new_key |-> new_key, new_value |-> new_value]} :
       \E f1 \in {add_new_entry(f0)} :
       \E f2 \in {IF clicked /\ enter THEN add_new_entry(f1) ELSE f1} :
           /\ data' = f2.data
           /\ new_key' = f2.new_key
           /\ new_value' = f2.new_value
    /\ last' = Idle
    /\ UNCHANGED <<screen, password, error_message, delete_candidate, closed,
                   fs, rng, store, tampered>>

\* The value field of the entry key is edited to v.
EditValue(key, v) ==
    /\ ~closed /\ screen = "Editor"
    /\ key \in DOMAIN data
    /\ data' = Insert(data, key, v)
    /\ last' = Idle
    /\ UNCHANGED <<screen, password, error_message, new_key, new_value,
                   delete_candidate, closed, fs, rng, store, tampered>>

\* The delete button of the entry key.
AskDelete(key) ==
    /\ ~closed /\ screen = "Editor"
    /\ key \in DOMAIN data
    /\ delete_candidate' = {key}
    /\ last' = Idle
    /\ UNCHANGED <<screen, password, data, error_message, new_key, new_value,
                   closed, fs, rng, store, tampered>>

\* show_delete_confirm_dialog: the delete button.
ConfirmDelete ==
    /\ ~closed
    /\ \E key \in delete_candidate :
        /\ data' = Remove(data, key)
        /\ delete_candidate' = {}
    /\ last' = Idle
    /\ UNCHANGED <<screen, password, error_message, new_key, new_value, closed,
                   fs, rng, store, tampered>>

\* show_delete_confirm_dialog: the cancel button.
CancelDelete ==
    /\ ~closed
    /\ delete_candidate # {}
    /\ delete_candidate' = {}
    /\ last' = Idle
    /\ UNCHANGED <<screen, password, data, error_message, new_key, new_value,
                   closed, fs, rng, store, tampered>>

\* ----------------------------------------------------------------- process
\* main: the process is started (again); App::default() over the files left
\* on disk.
Launch ==
    /\ screen' = "PasswordInput"
    /\ password' = <<>>
    /\ data' = EmptyItems
    /\ error_message' = <<>>
    /\ new_key' = <<>>
    /\ new_value' = ""
    /\ delete_candidate' = {}
    /\ closed' = FALSE
    /\ last' = Idle
    /\ UNCHANGED <<fs, rng, store, tampered>>

\* The steps of the program when every I/O call draws its outcome from IO
\* and the keys typed into the add form are those of Keys.
Step(IO, Keys) ==
    \/ \E p \in Passwords : TypePassword(p)
    \/ \E clicked, enter \in BOOLEAN : \E io1, io2 \in IO :
          LoginFrame(clicked, enter, io1, io2)
    \/ \E io \in IO : \E order \in Orders(DOMAIN data) : Save(io, order)
    \/ \E io \in IO : \E order \in Orders(DOMAIN data) : SaveAndExit(io, order)
    \/ \E k \in Keys : TypeNewKey(k)
    \/ \E v \in Values : TypeNewValue(v)
    \/ \E clicked, enter \in BOOLEAN : AddFrame(clicked, enter)
    \/ \E key \in Keys : \E v \in Values : EditValue(key, v)
    \/ \E key \in Keys : AskDelete(key)
    \/ ConfirmDelete
    \/ CancelDelete
    \/ Launch

\* The program on a file system whose calls all succeed and that nothing
\* else writes to.
Next == Step(NoFault, KeyStrings)

Spec == Init /\ [][Next]_vars

\* ------------------------------------------------------------------ faults
\* The process dies inside fs::write of a save, after File::create truncated
\* the container and before any byte was written.
CrashDuringSave(order) ==
    /\ ~closed /\ screen = "Editor"
    /\ CanDraw(rng)
    /\ \E r \in {encrypt_data(password, data, fs, rng, "enc_write_cut", order)} :
           /\ r.err = <<"io: write data">>
           /\ fs' = r.fs
           /\ rng' = r.rng
           /\ last' = Observe("crash", password, data, fs, r)
    /\ closed' = TRUE
    /\ UNCHANGED <<screen, password, data, error_message, new_key, new_value,
                   delete_candidate, store, tampered>>

\* The program on a file system whose calls can fail, and with crashes.
NextFault ==
    \/ Step(Faults, OneKey)
    \/ \E order \in Orders(DOMAIN data) : CrashDuringSave(order)

SpecFault == Init /\ [][NextFault]_vars

\* ------------------------------------------------------------- environment
\* The documents whose text a changed ciphertext can decrypt to.
OtherTexts ==
    {NotUtf8, NotJson, to_string(EmptyItems, <<>>),
     to_string(Insert(EmptyItems, <<"a">>, "x"), << <<"a">> >>)}

\* The containers that differ from the complete container c in one bit of
\* the file: the bit lies in the nonce, in the ciphertext or in the tag of
\* the decoded data, or the changed character makes the text undecodable.
BitFlips(c) ==
    {[c EXCEPT !.nonce = n] : n \in (0..MaxNonce) \ {c.nonce}}
    \cup {[c EXCEPT !.ct.pt = t] : t \in OtherTexts \ {c.ct.pt}}
    \cup {[c EXCEPT !.tag.flipped = TRUE]}
    \cup {[c EXCEPT !.text = "not_b64"], [c EXCEPT !.text = "not_utf8"]}

\* Something other than the program flips one bit of the container file.
Tamper(c) ==
    /\ fs.enc # Absent /\ fs.enc.text = "b64" /\ fs.enc.nonce_bytes = NonceLen
    /\ tampered = {}
    /\ c \in BitFlips(fs.enc)
    /\ fs' = [fs EXCEPT !.enc = c]
    /\ tampered' = {fs.enc}
    /\ last' = Idle
    /\ UNCHANGED <<app_vars, rng, store>>

\* Something other than the program deletes the salt file.
DeleteSalt ==
    /\ fs.salt # Absent
    /\ fs' = [fs EXCEPT !.salt = Absent]
    /\ last' = Idle
    /\ UNCHANGED <<app_vars, rng, store, tampered>>

\* The program on a file system that other programs write to.
NextEnv ==
    \/ Step(NoFault, OneKey)
    \/ \E c \in (IF fs.enc = Absent THEN {} ELSE BitFlips(fs.enc)) : Tamper(c)
    \/ DeleteSalt

SpecEnv == Init /\ [][NextEnv]_vars

\* ================================================================== claims
\* The container on disk opens under the password of the store.
ContainerOpens ==
    /\ fs.enc # Absent
    /\ \A pw \in store.pw :
          decrypt_data(pw, EmptyItems, fs, rng, "none", <<>>).err = <<>>

\* An engine call has just written the container.
WroteContainer ==
    /\ last.op \in {"unlock", "save", "save_exit"}
    /\ last.ok
    /\ last.op = "unlock" => last.first_run

\* C1: an unlock of an established store with the store's password succeeds
\* and loads exactly the document of the last save.
RoundTrip ==
    (last.op = "unlock" /\ ~last.first_run /\ last.pw \in store.pw)
        => (last.ok /\ screen = "Editor" /\ data = store.doc)

\* C1 happens: a document of two entries was saved and then unlocked.
RoundTripWitness ==
    /\ last.op = "unlock" /\ ~last.first_run /\ last.ok
    /\ store.by = "save"
    /\ Cardinality(DOMAIN data) = 2
    /\ data = store.doc

\* C2: an unlock of an established store with another password than the
\* store's fails at the authenticated decryption and loads nothing.
WrongPassword ==
    (last.op = "unlock" /\ ~last.first_run /\ last.pw \notin store.pw)
        => (/\ ~last.ok
            /\ last.err = <<"Falsches Passwort">>
            /\ last.kept
            /\ data = EmptyItems
            /\ screen = "PasswordInput")

\* C2 happens: a store established by a first-run unlock was unlocked with
\* another non-blank password.
WrongPasswordWitness ==
    /\ last.op = "unlock" /\ ~last.first_run
    /\ store.by = "unlock"
    /\ last.pw \notin store.pw
    /\ Trim(last.pw) # <<>>
    /\ ~last.ok

\* C3: after one bit of the container was flipped, an unlock with the
\* store's password fails and leaves the document as it was.
TamperDetected ==
    (last.op = "unlock" /\ tampered # {} /\ last.pw \in store.pw)
        => (~last.ok /\ last.kept /\ data = EmptyItems /\ screen = "PasswordInput")

\* C3 happens: the flipped bit turned the ciphertext into that of another
\* well-formed document, and the unlock with the store's password failed.
TamperDetectedWitness ==
    /\ last.op = "unlock" /\ tampered # {} /\ last.pw \in store.pw
    /\ fs.salt # Absent
    /\ fs.enc.text = "b64"
    /\ fs.enc.ct.pt.json
    /\ \A c \in tampered : fs.enc.ct # c.ct
    /\ ~last.ok

\* C4: every container written carries a (key, nonce) pair that no earlier
\* container carried, and differs from the container it replaces.
NonceUnique ==
    [][WroteContainer' =>
          /\ <<fs'.enc.ct.k, fs'.enc.nonce>> \notin store.used
          /\ fs'.enc # fs.enc]_vars

\* C4 happens: the empty document was saved again, with the same password,
\* over the container that the first run wrote for it.
NonceUniqueWitness ==
    /\ last.op = "save" /\ last.ok
    /\ store.doc = EmptyItems
    /\ Cardinality(store.used) = 2
    /\ \A u, w \in store.used : u[1] = w[1]

\* C5: no step changes a salt file that exists, and a salt is drawn only in
\* a step that starts without a salt file.
SaltStable ==
    [][/\ fs.salt # Absent => fs'.salt = fs.salt
       /\ rng'.ns # rng.ns => fs.salt = Absent]_vars

\* C5 happens: a save succeeded over a salt file that an earlier call wrote.
SaltStableWitness ==
    /\ last.op = "save" /\ last.ok /\ ~last.no_salt
    /\ fs.salt # Absent /\ fs.salt.complete
    /\ Cardinality(store.used) >= 2

\* C6: an unlock that starts with neither file succeeds with the empty
\* document and leaves both files; the next unlock of that store with the
\* same password succeeds with the empty document too.
FirstRunIdempotent ==
    /\ (last.op = "unlock" /\ last.first_run /\ last.no_salt)
          => (/\ last.ok /\ data = EmptyItems /\ screen = "Editor"
              /\ fs.salt # Absent /\ fs.enc # Absent)
    /\ (last.op = "unlock" /\ ~last.first_run /\ store.by = "unlock"
        /\ last.pw \in store.pw)
          => (last.ok /\ data = EmptyItems /\ screen = "Editor")

\* C6 happens: the store written by a first-run unlock was unlocked again
\* with the same password.
FirstRunIdempotentWitness ==
    /\ last.op = "unlock" /\ ~last.first_run /\ last.ok
    /\ store.by = "unlock"
    /\ last.pw \in store.pw
    /\ rng.nn = 1 /\ rng.ns = 1

\* C7: an unlock that returns an error has changed neither file.
UnlockFailureKeepsFiles ==
    (last.op = "unlock" /\ ~last.ok) => ~last.changed

\* C8: a container that opens under the store's password keeps doing so
\* through every step, a failed or interrupted save included.
CrashSafeOverwrite ==
    [][ContainerOpens => ContainerOpens']_vars

\* C9: a failing unlock shows the same error as the failing unlock before it.
UnlockErrorsAlike ==
    [][(/\ screen = "PasswordInput" /\ error_message # <<>>
        /\ last'.op = "unlock" /\ ~last'.ok)
          => error_message' = error_message]_vars

\* C10: a save that returns an error leaves the document, the password and
\* the editor as they were.
FailedSaveKeepsDocument ==
    [][(last'.op = "save" /\ ~last'.ok)
          => (/\ data' = data /\ password' = password
              /\ screen' = "Editor" /\ ~closed')]_vars

\* C10 happens: a save of a non-empty document failed.
FailedSaveKeepsDocumentWitness ==
    /\ last.op = "save" /\ ~last.ok
    /\ data # EmptyItems
    /\ password # <<>>

KeysValid ==
    /\ \A k \in DOMAIN data : Trim(k) # <<>>
    /\ \A k \in DOMAIN store.doc : Trim(k) # <<>>
    /\ fs.enc # Absent => \A k \in DOMAIN from_str(fs.enc.ct.pt) : Trim(k) # <<>>
    /\ Trim(new_key) = <<>>
          => add_new_entry([data |-> data, new_key |-> new_key, new_value |-> new_value])
                 = [data |-> data, new_key |-> new_key, new_value |-> new_value]

\* C12 happens: a document with a key that has a leading blank was saved and
\* loaded again, and the key field holds a blank.
KeysValidWitness ==
    /\ last.op = "unlock" /\ last.ok /\ ~last.first_run
    /\ <<" ", "b">> \in DOMAIN data
    /\ store.by = "save"
    /\ Trim(new_key) = <<>>

\* C13: a step that sets key k to value v, by the add form or by the value
\* edit, leaves a document that has k with value v and otherwise exactly the
\* entries it had before; whatever value k had is replaced.
SetOverwrites ==
    [][\A k \in KeyStrings : \A v \in Values :
          ((/\ new_key = k /\ new_value = v
            /\ \E clicked, enter \in BOOLEAN : AddFrame(clicked, enter))
           \/ EditValue(k, v))
          => (/\ DOMAIN data' = (DOMAIN data) \cup {k}
              /\ data'[k] = v
              /\ \A x \in (DOMAIN data) \ {k} : data'[x] = data[x])]_vars

\* C13 happens: key "a" was saved with the empty value and then set to "x",
\* with a second entry in the document.
SetOverwritesWitness ==
    /\ screen = "Editor"
    /\ store.by = "save"
    /\ DOMAIN store.doc = {<<"a">>, <<" ", "b">>}
    /\ store.doc[<<"a">>] = ""
    /\ DOMAIN data = DOMAIN store.doc
    /\ data[<<"a">>] = "x"
    /\ data[<<" ", "b">>] = store.doc[<<" ", "b">>]
    /\ last = Idle

MissingSaltFails ==
    [][/\ (fs.enc # Absent /\ fs.salt = Absent /\ last'.op = "unlock")
              => (/\ ~last'.ok
                  /\ last'.no_salt /\ ~last'.first_run
                  /\ fs' = fs
                  /\ rng' = rng
                  /\ screen' = "PasswordInput")
       /\ (fs.enc # Absent /\ last'.op = "unlock")
              => (fs'.salt = fs.salt /\ rng'.ns = rng.ns)]_vars

\* C15 happens: the salt file of a store was deleted, and the unlock with
\* the store's password failed.
MissingSaltFailsWitness ==
    /\ last.op = "unlock" /\ ~last.ok
    /\ last.no_salt /\ ~last.first_run
    /\ last.pw \in store.pw
    /\ fs.salt = Absent
    /\ fs.enc # Absent /\ fs.enc.nonce_bytes = NonceLen

\* C16: every call of try_login runs with a password that is non-empty after
\* trimming, and no container is written under a blank password.
UnlockPasswordNonBlank ==
    /\ last.op = "unlock" => Trim(last.pw) # <<>>
    /\ \A pw \in store.pw : Trim(pw) # <<>>

\* C17: the screen changes to Editor only in a step with an unlock and,
\* within one run of the process, never changes back; while the screen is
\* PasswordInput the document is empty and no step saves or changes it; and
\* after an unlock that returned an error the screen is PasswordInput and the
\* document is as it was.
UnlockGate ==
    [][/\ (screen = "PasswordInput" /\ screen' = "Editor") => last'.op = "unlock"
       /\ (screen = "Editor" /\ screen' = "PasswordInput") => Launch
       /\ screen = "PasswordInput" => data = EmptyItems
       /\ screen = "PasswordInput"
              => (/\ last'.op \notin {"save", "save_exit", "crash"}
                  /\ data' # data => (last'.op = "unlock" /\ screen' = "Editor"))
       /\ (last'.op = "unlock" /\ ~last'.ok)
              => (screen' = "PasswordInput" /\ data' = data)]_vars

\* C18: while the editor is open the session password is the password under
\* which the container was last written (by the first run or by a save), so
\* that it is the password that opens the store.
SessionPasswordOpensStore ==
    screen = "Editor" => store.pw = {password}

\* C19: within one run of the process the error message becomes empty only
\* in a step whose unlock succeeded, and no step taken in the editor, a
\* successful save included, empties an error message that is set.
SaveErrorPersists ==
    [][/\ (error_message # <<>> /\ error_message' = <<>>)
              => (Launch \/ (last'.op = "unlock" /\ last'.ok))
       /\ (screen = "Editor" /\ error_message # <<>> /\ ~Launch)
              => error_message' # <<>>]_vars

\* C19 happens: a save succeeded and the error of an earlier failed save is
\* still in the error message.
SaveErrorPersistsWitness ==
    /\ last.op = "save" /\ last.ok
    /\ screen = "Editor"
    /\ error_message # <<>>
    /\ Head(error_message) = "X "

====
